---- MODULE Spec2Model ----
(***************************************************************************)
(* Article summary generator: the /summarize request path.                 *)
(*                                                                         *)
(*   backend/models.py            SummaryRequest (field constraints and    *)
(*                                validators)                              *)
(*   services/gemini_service.py   GeminiService.summarize_text (bounded    *)
(*                                retry loop, backoff, result metrics)     *)
(*   services/langsmith_service.py LangSmithService.track_summarization    *)
(*   backend/main.py              summarize_article (error mapping)        *)
(*                                                                         *)
(* A string is a sequence of runs.  A run is either a word (n consecutive  *)
(* non-whitespace characters) or a gap (n consecutive whitespace           *)
(* characters; plain says that all of them are the space character).  Two  *)
(* neighbouring runs are never of the same sort.  len, strip, split and    *)
(* re.sub(r'\s+', ' ', .) are computed on this representation.             *)
(*                                                                         *)
(* A float quotient a / b is the fraction a/b in lowest terms, <<p, q>>.   *)
(* None is the empty sequence and a present value x is <<x>>.              *)
(* time.time() advances by the seconds spent in asyncio.sleep; the remote  *)
(* call itself takes no time on this clock.                                *)
(***************************************************************************)
EXTENDS Integers, Sequences, FiniteSets, TLC

\* ------------------------------------------------------------------ bounds
\* Largest max_retries a direct caller of summarize_text passes.
MaxRetriesBound == 3

\* The max_retries of a direct call that runs next to another request.
PairRetries == 2

\* ------------------------------------------------------- program constants
MinLength == 50
MaxLength == 50000
MinWords == 10
DefaultMaxRetries == 3

Reqs == {1, 2}

None == << >>
Some(x) == << x >>

\* ----------------------------------------------------------------- strings
Word(n) == [ws |-> FALSE, n |-> n, plain |-> TRUE]
Gap(n, plain) == [ws |-> TRUE, n |-> n, plain |-> plain]

\* A string of nwords words of wlen characters each, separated by gaps of
\* gap whitespace characters, with lead/trail whitespace characters around.
MkText(lead, nwords, wlen, gap, plain, trail) ==
    (IF lead > 0 THEN << Gap(lead, plain) >> ELSE << >>)
    \o (IF nwords > 0
        THEN [i \in 1..(2 * nwords - 1) |->
                 IF i % 2 = 1 THEN Word(wlen) ELSE Gap(gap, plain)]
        ELSE << >>)
    \o (IF trail > 0 THEN << Gap(trail, plain) >> ELSE << >>)

\* The number of characters of the runs lo..hi of s.
RECURSIVE RunChars(_, _, _)
RunChars(s, lo, hi) ==
    IF lo > hi THEN 0
    ELSE IF lo = hi THEN s[lo].n
    ELSE LET mid == (lo + hi) \div 2
         IN  RunChars(s, lo, mid) + RunChars(s, mid + 1, hi)

\* len(s)
StrLen(s) == RunChars(s, 1, Len(s))

\* s.strip()
Strip(s) ==
    LET a == IF s # << >> /\ Head(s).ws THEN Tail(s) ELSE s
    IN  IF a # << >> /\ a[Len(a)].ws THEN SubSeq(a, 1, Len(a) - 1) ELSE a

IsWordRun(run) == ~run.ws

\* s.split()
Split(s) == SelectSeq(s, IsWordRun)

\* re.sub(r'\s+', ' ', s)
ReSubSpaces(s) == [i \in 1..Len(s) |-> IF s[i].ws THEN Gap(1, TRUE) ELSE s[i]]

\* bool(s) of a string
Truthy(s) == s # << >>

\* ------------------------------------------------------- backend/models.py
Valid(v) == [ok |-> TRUE, value |-> v, error |-> ""]
Invalid(msg) == [ok |-> FALSE, value |-> << >>, error |-> msg]

\* validate_text without the check of the number of words.
validate_text_NoWordCheck(v) ==
    IF ~Truthy(Strip(v))
    THEN Invalid("Text cannot be empty or only whitespace")
    ELSE Valid(Strip(ReSubSpaces(v)))

\* @validator('text')
validate_text(v) ==
    IF ~Truthy(Strip(v))
    THEN Invalid("Text cannot be empty or only whitespace")
    ELSE LET w == Strip(ReSubSpaces(v))
         IN  IF Len(Split(w)) < MinWords
             THEN Invalid("Text must contain at least 10 words")
             ELSE Valid(w)

\* text: str = Field(..., min_length=50, max_length=50000): the constraints
\* of the field are applied to the value received, then the validator runs.
TextField(v) ==
    IF StrLen(v) < MinLength THEN Invalid("string_too_short")
    ELSE IF StrLen(v) > MaxLength THEN Invalid("string_too_long")
    ELSE validate_text(v)

Tiers == {"short", "medium", "long"}

\* summary_length: Field(pattern="^(short|medium|long)$") and its validator
SummaryLengthField(t) ==
    IF t \notin Tiers THEN Invalid("string_pattern_mismatch") ELSE Valid(<< >>)

\* SummaryRequest(text=v, summary_length=t)
SummaryRequest(v, t) ==
    LET tf == TextField(v)
        lf == SummaryLengthField(t)
    IN  [ok |-> tf.ok /\ lf.ok,
         text |-> tf.value,
         error |-> IF ~tf.ok THEN tf.error ELSE lf.error]

\* ------------------------------------------- services/gemini_service.py
RECURSIVE GCD(_, _)
GCD(a, b) == IF b = 0 THEN a ELSE GCD(b, a % b)

\* a / b for ints a >= 0, b > 0
TrueDiv(a, b) == LET g == GCD(a, b) IN << a \div g, b \div g >>

\* the int 0 where a float is expected
Zero == << 0, 1 >>

\* 2 ** attempt
RECURSIVE Pow2(_)
Pow2(i) == IF i <= 0 THEN 1 ELSE 2 * Pow2(i - 1)

\* A linear backoff, 2 * attempt.
Backoff_Linear(attempt) == 2 * attempt

\* asyncio.sleep(2 ** attempt)
Backoff(attempt) == Pow2(attempt)

RECURSIVE SumSeq(_)
SumSeq(q) == IF q = << >> THEN 0 ELSE Head(q) + SumSeq(Tail(q))

\* What one call of model.generate_content does: it returns a response
\* with a text, returns without a text, or raises.
Payload(t) == [kind |-> "payload", text |-> t, cls |-> "", msg |-> ""]
Missing == [kind |-> "missing", text |-> << >>, cls |-> "", msg |-> ""]
Raises(c, m) == [kind |-> "raise", text |-> << >>, cls |-> c, msg |-> m]

\* The await of the remote call ends because the task is cancelled.
Cancelled == [kind |-> "cancel", text |-> << >>, cls |-> "", msg |-> ""]

Exc(c, m) == [cls |-> c, msg |-> m]

\* summary = response.text.strip()
SummaryOf(t) == Strip(t)

\* The ratio with floor division, summary_word_count // original_length.
CompressionRatio_Floor(summary_word_count, original_length) ==
    IF original_length > 0
    THEN << summary_word_count \div original_length, 1 >>
    ELSE Zero

\* compression_ratio = summary_word_count / original_length
\*                     if original_length > 0 else 0
CompressionRatio(summary_word_count, original_length) ==
    IF original_length > 0
    THEN TrueDiv(summary_word_count, original_length)
    ELSE Zero

\* The result with the summary taken from the input text instead of the
\* response text.
BuildResult_FromInput(responseText, text, elapsed) ==
    LET summary == Strip(text)
        original_length == Len(Split(text))
        summary_word_count == Len(Split(summary))
    IN  [summary |-> summary,
         original_length |-> original_length,
         summary_length |-> summary_word_count,
         compression_ratio |->
             IF original_length > 0
             THEN TrueDiv(summary_word_count, original_length)
             ELSE Zero,
         processing_time |-> elapsed]

\* The metrics and the dict returned on success.
BuildResult(responseText, text, elapsed) ==
    LET summary == SummaryOf(responseText)
        original_length == Len(Split(text))
        summary_word_count == Len(Split(summary))
    IN  [summary |-> summary,
         original_length |-> original_length,
         summary_length |-> summary_word_count,
         compression_ratio |->
             CompressionRatio(summary_word_count, original_length),
         processing_time |-> elapsed]

\* if not response or not response.text
NoText(o) == o.kind = "missing" \/ ~Truthy(o.text)

\* The try block of one attempt, from the return of the remote call on:
\* the exception it raises, or None when it reaches the return statement.
TryBlock(o) ==
    IF o.kind = "raise" THEN Some(Exc(o.cls, o.msg))
    ELSE IF o.kind = "cancel" THEN Some(Exc("CancelledError", ""))
    ELSE IF NoText(o)
         THEN Some(Exc("ValueError", "Empty response from Gemini API"))
         ELSE None

\* A clause that catches everything, as a bare except does.
ExceptException_Bare(cls) == TRUE

\* except Exception as e: the classes the clause catches.
\* asyncio.CancelledError derives from BaseException.
ExceptException(cls) == cls \in {"Exception", "ValueError", "RuntimeError"}

\* if attempt == max_retries - 1
IsLastAttempt(attempt, max_retries) == attempt = max_retries - 1

\* ---------------------------------------------------------- the prompt
\* A word whose characters are known.
Lit(w, n) == [ws |-> FALSE, n |-> n, plain |-> TRUE, lit |-> w]

\* "in 2-3 sentences (50-100 words)"
Instruction_short ==
    << Lit("in", 2), Gap(1, TRUE), Lit("2-3", 3), Gap(1, TRUE),
       Lit("sentences", 9), Gap(1, TRUE), Lit("(50-100", 7), Gap(1, TRUE),
       Lit("words)", 6) >>

\* "in 1-2 paragraphs (100-200 words)"
Instruction_medium ==
    << Lit("in", 2), Gap(1, TRUE), Lit("1-2", 3), Gap(1, TRUE),
       Lit("paragraphs", 10), Gap(1, TRUE), Lit("(100-200", 8), Gap(1, TRUE),
       Lit("words)", 6) >>

\* "in 2-3 paragraphs (200-300 words)"
Instruction_long ==
    << Lit("in", 2), Gap(1, TRUE), Lit("2-3", 3), Gap(1, TRUE),
       Lit("paragraphs", 10), Gap(1, TRUE), Lit("(200-300", 8), Gap(1, TRUE),
       Lit("words)", 6) >>

\* length_instructions
length_instructions ==
    [short |-> Instruction_short, medium |-> Instruction_medium,
     long |-> Instruction_long]

\* The fallback of length_instructions.get taken from "short".
Instruction_FallbackShort(length) ==
    IF length \in DOMAIN length_instructions
    THEN length_instructions[length]
    ELSE length_instructions["short"]

\* instruction = length_instructions.get(length, length_instructions["medium"])
Instruction(length) ==
    IF length \in DOMAIN length_instructions
    THEN length_instructions[length]
    ELSE length_instructions["medium"]

\* The three literal parts of the f-string: before {instruction}, between
\* {instruction} and {text}, and after {text}.
PromptHead ==
    << Gap(9, FALSE), Lit("Please", 6), Gap(1, TRUE), Lit("provide", 7),
       Gap(1, TRUE), Lit("a", 1), Gap(1, TRUE), Lit("comprehensive", 13),
       Gap(1, TRUE), Lit("summary", 7), Gap(1, TRUE), Lit("of", 2),
       Gap(1, TRUE), Lit("the", 3), Gap(1, TRUE), Lit("following", 9),
       Gap(1, TRUE), Lit("text", 4), Gap(1, TRUE) >>

PromptMiddle ==
    << Lit(".", 1), Gap(10, FALSE), Lit("Focus", 5), Gap(1, TRUE),
       Lit("on:", 3), Gap(9, FALSE), Lit("1.", 2), Gap(1, TRUE),
       Lit("Main", 4), Gap(1, TRUE), Lit("topics", 6), Gap(1, TRUE),
       Lit("and", 3), Gap(1, TRUE), Lit("key", 3), Gap(1, TRUE),
       Lit("points", 6), Gap(9, FALSE), Lit("2.", 2), Gap(1, TRUE),
       Lit("Important", 9), Gap(1, TRUE), Lit("facts", 5), Gap(1, TRUE),
       Lit("and", 3), Gap(1, TRUE), Lit("findings", 8), Gap(9, FALSE),
       Lit("3.", 2), Gap(1, TRUE), Lit("Conclusions", 11), Gap(1, TRUE),
       Lit("or", 2), Gap(1, TRUE), Lit("recommendations", 15), Gap(1, TRUE),
       Lit("if", 2), Gap(1, TRUE), Lit("present", 7), Gap(9, FALSE),
       Lit("4.", 2), Gap(1, TRUE), Lit("Keep", 4), Gap(1, TRUE),
       Lit("the", 3), Gap(1, TRUE), Lit("summary", 7), Gap(1, TRUE),
       Lit("coherent", 8), Gap(1, TRUE), Lit("and", 3), Gap(1, TRUE),
       Lit("well-structured", 15), Gap(10, FALSE), Lit("Text", 4),
       Gap(1, TRUE), Lit("to", 2), Gap(1, TRUE), Lit("summarize:", 10),
       Gap(9, FALSE) >>

PromptTail ==
    << Gap(10, FALSE), Lit("Summary:", 8), Gap(9, FALSE) >>

\* _get_summary_prompt(text, length): the parts of the f-string in order;
\* the prompt is their concatenation.
get_summary_prompt(t, length) ==
    << PromptHead, Instruction(length), PromptMiddle, t, PromptTail >>

\* ------------------------------------------------------------------- state
VARIABLES
    telemetry,      \* langsmith_service: "disabled", "ok" or "throws"
    entry,          \* "endpoint": POST /summarize; "direct": summarize_text
                    \* called by other code; "absent": no such request
    text,           \* the text received
    tier,           \* the summary_length received
    max_retries,    \* summarize_text's max_retries
    pc,             \* where the request is
    arg,            \* the text summarize_text is called with
    attempt,        \* the loop variable of summarize_text
    calls,          \* remote calls submitted
    fails,          \* attempts that ended in the except block
    sleeps,         \* the durations of the asyncio.sleep calls, in order
    last,           \* what the latest remote call did
    result,         \* the dict summarize_text returned
    exc,            \* the exception summarize_text raised
    tracked,        \* what track_summarization returned
    response,       \* the HTTP response
    logged,         \* error texts written to the log
    prompt,         \* the prompt of the latest remote call
    cancelled       \* the task of the request has been cancelled

vars == << telemetry, entry, text, tier, max_retries, pc, arg, attempt,
           calls, fails, sleeps, last, result, exc, tracked, response,
           logged, prompt, cancelled >>

\* self.enabled
Enabled == telemetry # "disabled"

\* -------------------------------------------------------------- the inputs
InputTexts ==
    { << >>,                                 \* ""
      MkText(60, 0, 0, 0, TRUE, 0),          \* 60 spaces
      MkText(0, 10, 4, 1, TRUE, 0),          \* 10 words, 49 characters
      MkText(0, 10, 4, 1, TRUE, 1),          \* the same and a space: 50
      MkText(0, 10, 5, 1, TRUE, 0),          \* 10 words, 59 characters
      MkText(1, 10, 5, 2, FALSE, 0),         \* tabs and newlines: 69
      MkText(0, 9, 6, 1, TRUE, 0),           \* 9 words, 62 characters
      MkText(0, 60, 4, 1, TRUE, 0),          \* 60 words
      MkText(0, 100, 4, 1, TRUE, 0),         \* 100 words
      MkText(0, 10, 4999, 1, TRUE, 1),       \* 50000 characters
      MkText(0, 10, 4999, 1, TRUE, 2),       \* 50001 characters
      MkText(0, 10, 5, 1, TRUE, 1) \o Instruction_long }
                                             \* 10 words and the words of
                                             \* the instruction of "long"

InputTiers == Tiers \cup {"huge"}

RemoteTexts ==
    { << >>,                                 \* ""
      MkText(2, 0, 0, 0, FALSE, 0),          \* "\n\n"
      MkText(1, 20, 6, 1, TRUE, 1),          \* 20 words, padded
      MkText(0, 15, 6, 1, TRUE, 0) }         \* 15 words

ErrorTexts == {"quota exceeded for key", "blocked: finish_reason SAFETY"}

Outcomes ==
    { Payload(t) : t \in RemoteTexts } \cup { Missing }
    \cup { Raises(c, m) : c \in {"ValueError", "Exception"}, m \in ErrorTexts }

\* ---------------------------------------- services/langsmith_service.py
\* track_summarization without the try/except around the tracking.
track_summarization_Unguarded(res) ==
    IF ~Enabled
    THEN [value |-> Some(res), exc |-> None, log |-> {}]
    ELSE IF telemetry = "throws"
         THEN [value |-> None, exc |-> Some(Exc("Exception", "telemetry")),
               log |-> {}]
         ELSE [value |-> Some(res), exc |-> None, log |-> {}]

\* track_summarization(text, summary_length, result): what it returns, the
\* exception that leaves it, and what it writes to the log.
track_summarization(res) ==
    IF ~Enabled
    THEN [value |-> Some(res), exc |-> None, log |-> {}]
    ELSE IF telemetry = "throws"
         \* except Exception as e: logger.warning(...), then return result
         THEN [value |-> Some(res), exc |-> None,
               log |-> {"Failed to track in LangSmith"}]
         ELSE [value |-> Some(res), exc |-> None, log |-> {}]

\* --------------------------------------------------------- backend/main.py
\* The answer to a request body that SummaryRequest rejects: the handler is
\* not entered.
Unprocessable(msg) ==
    [status |-> 422, error |-> "Unprocessable Entity", detail |-> msg,
     error_code |-> "", body |-> None]

\* return SummaryResponse(**result)
SummaryResponse(res) ==
    [status |-> 200, error |-> "", detail |-> "", error_code |-> "",
     body |-> Some(res)]

\* except ValueError as e / except Exception as e
ErrorResponse(e) ==
    IF e.cls = "ValueError"
    THEN [status |-> 400, error |-> "Validation error", detail |-> e.msg,
          error_code |-> "VALIDATION_ERROR", body |-> None]
    ELSE [status |-> 500, error |-> "Summarization failed",
          detail |-> "Unable to generate summary. Please try again.",
          error_code |-> "SUMMARIZATION_ERROR", body |-> None]

\* ---------------------------------------------------------- event loop
\* The coroutines of all requests run on one event loop thread; a coroutine
\* that is not at an await keeps the thread.

\* The backoff made with a sleep that is not awaited (time.sleep).
HoldsLoop_BlockingSleep(r) == pc[r] = "sleeping"

\* r keeps the event loop thread while it waits.  The remote call runs in the
\* executor and is awaited (await loop.run_in_executor), the backoff is
\* awaited (await asyncio.sleep): r waits suspended.
HoldsLoop(r) == FALSE

\* The event loop can run the next step of r.
LoopFree(r) == \A q \in Reqs \ {r} : ~HoldsLoop(q)

\* ----------------------------------------------------------------- actions
Init ==
    \E e \in {"endpoint", "direct"}, t \in InputTexts, l \in InputTiers,
       m \in -1..MaxRetriesBound, tm \in {"disabled", "ok", "throws"} :
        /\ e = "endpoint" => m = DefaultMaxRetries
        /\ telemetry = tm
        /\ entry = [r \in Reqs |-> IF r = 1 THEN e ELSE "absent"]
        /\ text = [r \in Reqs |-> IF r = 1 THEN t ELSE << >>]
        /\ tier = [r \in Reqs |-> IF r = 1 THEN l ELSE "medium"]
        /\ max_retries = [r \in Reqs |-> IF r = 1 THEN m ELSE 0]
        /\ pc = [r \in Reqs |-> IF r # 1 THEN "absent"
                                ELSE IF e = "endpoint" THEN "received"
                                ELSE "ready"]
        /\ arg = [r \in Reqs |-> IF r = 1 /\ e = "direct" THEN t ELSE << >>]
        /\ attempt = [r \in Reqs |-> 0]
        /\ calls = [r \in Reqs |-> 0]
        /\ fails = [r \in Reqs |-> 0]
        /\ sleeps = [r \in Reqs |-> << >>]
        /\ last = [r \in Reqs |-> None]
        /\ result = [r \in Reqs |-> None]
        /\ exc = [r \in Reqs |-> None]
        /\ tracked = [r \in Reqs |-> None]
        /\ response = [r \in Reqs |-> None]
        /\ logged = [r \in Reqs |-> {}]
        /\ prompt = [r \in Reqs |-> None]
        /\ cancelled = [r \in Reqs |-> FALSE]

\* Two requests in the same process: each is an endpoint request or a
\* direct call, with a valid text.
InitPair ==
    \E e1 \in {"endpoint", "direct"}, e2 \in {"endpoint", "direct"},
       tm \in {"disabled", "throws"} :
        LET e == [r \in Reqs |-> IF r = 1 THEN e1 ELSE e2]
            t == [r \in Reqs |-> IF r = 1 THEN MkText(0, 10, 5, 1, TRUE, 0)
                                 ELSE MkText(1, 60, 4, 2, FALSE, 0)]
        IN  /\ telemetry = tm
            /\ entry = e
            /\ text = t
            /\ tier = [r \in Reqs |-> IF r = 1 THEN "short" ELSE "long"]
            /\ max_retries = [r \in Reqs |->
                                 IF e[r] = "endpoint" THEN DefaultMaxRetries
                                 ELSE PairRetries]
            /\ pc = [r \in Reqs |->
                        IF e[r] = "endpoint" THEN "received" ELSE "ready"]
            /\ arg = [r \in Reqs |-> IF e[r] = "direct" THEN t[r] ELSE << >>]
            /\ attempt = [r \in Reqs |-> 0]
            /\ calls = [r \in Reqs |-> 0]
            /\ fails = [r \in Reqs |-> 0]
            /\ sleeps = [r \in Reqs |-> << >>]
            /\ last = [r \in Reqs |-> None]
            /\ result = [r \in Reqs |-> None]
            /\ exc = [r \in Reqs |-> None]
            /\ tracked = [r \in Reqs |-> None]
            /\ response = [r \in Reqs |-> None]
            /\ logged = [r \in Reqs |-> {}]
            /\ prompt = [r \in Reqs |-> None]
            /\ cancelled = [r \in Reqs |-> FALSE]

\* POST /summarize: the body is parsed into a SummaryRequest before the
\* handler runs.
Validate(r) ==
    /\ pc[r] = "received"
    /\ LoopFree(r)
    /\ LET sr == SummaryRequest(text[r], tier[r])
       IN  IF sr.ok
           THEN /\ pc' = [pc EXCEPT ![r] = "ready"]
                /\ arg' = [arg EXCEPT ![r] = sr.text]
                /\ UNCHANGED response
           ELSE /\ pc' = [pc EXCEPT ![r] = "responded"]
                /\ response' = [response EXCEPT ![r] =
                                    Some(Unprocessable(sr.error))]
                /\ UNCHANGED arg
    /\ UNCHANGED << telemetry, entry, text, tier, max_retries, attempt,
                    calls, fails, sleeps, last, result, exc, tracked, logged,
                    prompt, cancelled >>

\* summarize_text without the raise after the loop: with an empty range
\* the function ends and returns None.
Invoke_NoFinalRaise(r) ==
    /\ pc[r] = "ready"
    /\ LoopFree(r)
    /\ IF max_retries[r] <= 0
       THEN /\ pc' = [pc EXCEPT ![r] = "returned"]
            /\ UNCHANGED << attempt, calls, prompt >>
       ELSE /\ pc' = [pc EXCEPT ![r] = "awaiting"]
            /\ attempt' = [attempt EXCEPT ![r] = 0]
            /\ prompt' = [prompt EXCEPT ![r] =
                              Some(get_summary_prompt(arg[r], tier[r]))]
            /\ calls' = [calls EXCEPT ![r] = 1]
    /\ UNCHANGED << telemetry, entry, text, tier, max_retries, arg, fails,
                    sleeps, last, result, exc, tracked, response, logged,
                    cancelled >>

\* summarize_text is entered: with an empty range the loop body never runs
\* and the raise after the loop is reached; otherwise attempt 0 submits the
\* remote call and awaits it.
Invoke(r) ==
    /\ pc[r] = "ready"
    /\ LoopFree(r)
    /\ IF max_retries[r] <= 0
       THEN /\ pc' = [pc EXCEPT ![r] = "raised"]
            /\ exc' = [exc EXCEPT ![r] = Some(Exc("RuntimeError",
                          "Failed to generate summary after all retries"))]
            /\ UNCHANGED << attempt, calls, prompt >>
       ELSE /\ pc' = [pc EXCEPT ![r] = "awaiting"]
            /\ attempt' = [attempt EXCEPT ![r] = 0]
            /\ prompt' = [prompt EXCEPT ![r] =
                              Some(get_summary_prompt(arg[r], tier[r]))]
            /\ calls' = [calls EXCEPT ![r] = 1]
            /\ UNCHANGED exc
    /\ UNCHANGED << telemetry, entry, text, tier, max_retries, arg, fails,
                    sleeps, last, result, tracked, response, logged,
                    cancelled >>

\* The rest of the loop body once the await of the remote call has ended
\* with o: return the result, let an exception that the except clause does
\* not catch leave summarize_text, re-raise on the last attempt, or start
\* the backoff sleep.
AfterRemote(r, o) ==
    LET e == TryBlock(o)
    IN  IF e = None
        THEN [pc |-> "returned",
              result |-> Some(BuildResult(o.text, arg[r], SumSeq(sleeps[r]))),
              exc |-> None, fails |-> fails[r], sleeps |-> sleeps[r],
              logged |-> logged[r]]
        ELSE IF ~ExceptException(e[1].cls)
        THEN [pc |-> "cancelled", result |-> None, exc |-> e,
              fails |-> fails[r], sleeps |-> sleeps[r], logged |-> logged[r]]
        ELSE IF IsLastAttempt(attempt[r], max_retries[r])
             THEN [pc |-> "raised", result |-> None, exc |-> e,
                   fails |-> fails[r] + 1, sleeps |-> sleeps[r],
                   logged |-> logged[r] \cup {e[1].msg}]
             ELSE [pc |-> "sleeping", result |-> None, exc |-> None,
                   fails |-> fails[r] + 1,
                   sleeps |-> Append(sleeps[r], Backoff(attempt[r])),
                   logged |-> logged[r] \cup {e[1].msg}]

RemoteResponds(r) ==
    /\ pc[r] = "awaiting"
    /\ LoopFree(r)
    /\ \E o \in Outcomes :
        LET n == AfterRemote(r, o)
        IN  /\ last' = [last EXCEPT ![r] = Some(o)]
            /\ pc' = [pc EXCEPT ![r] = n.pc]
            /\ result' = [result EXCEPT ![r] = n.result]
            /\ exc' = [exc EXCEPT ![r] = n.exc]
            /\ fails' = [fails EXCEPT ![r] = n.fails]
            /\ sleeps' = [sleeps EXCEPT ![r] = n.sleeps]
            /\ logged' = [logged EXCEPT ![r] = n.logged]
    /\ UNCHANGED << telemetry, entry, text, tier, max_retries, arg, attempt,
                    calls, tracked, response, prompt, cancelled >>

\* asyncio.sleep returns: the next iteration of range(max_retries) submits
\* the next remote call; when the range is used up the raise after the loop
\* is reached.
Wake(r) ==
    /\ pc[r] = "sleeping"
    /\ LoopFree(r)
    /\ IF attempt[r] + 1 < max_retries[r]
       THEN /\ pc' = [pc EXCEPT ![r] = "awaiting"]
            /\ attempt' = [attempt EXCEPT ![r] = attempt[r] + 1]
            /\ prompt' = [prompt EXCEPT ![r] =
                              Some(get_summary_prompt(arg[r], tier[r]))]
            /\ calls' = [calls EXCEPT ![r] = calls[r] + 1]
            /\ UNCHANGED exc
       ELSE /\ pc' = [pc EXCEPT ![r] = "raised"]
            /\ exc' = [exc EXCEPT ![r] = Some(Exc("RuntimeError",
                          "Failed to generate summary after all retries"))]
            /\ UNCHANGED << attempt, calls, prompt >>
    /\ UNCHANGED << telemetry, entry, text, tier, max_retries, arg, fails,
                    sleeps, last, result, tracked, response, logged,
                    cancelled >>

\* The task of the request is cancelled while it waits for the remote call
\* or sleeps.  CancelledError is raised at the await: in the try block for
\* the remote call, in the except block for asyncio.sleep, from where it
\* leaves summarize_text.  Neither except clause of summarize_article
\* catches it, so no response is built.
Cancel(r) ==
    /\ pc[r] \in {"awaiting", "sleeping"}
    /\ LoopFree(r)
    /\ ~cancelled[r]
    /\ cancelled' = [cancelled EXCEPT ![r] = TRUE]
    /\ LET n == IF pc[r] = "awaiting"
                THEN AfterRemote(r, Cancelled)
                ELSE [pc |-> "cancelled", result |-> None,
                      exc |-> Some(Exc("CancelledError", "")),
                      fails |-> fails[r], sleeps |-> sleeps[r],
                      logged |-> logged[r]]
       IN  /\ pc' = [pc EXCEPT ![r] = n.pc]
           /\ result' = [result EXCEPT ![r] = n.result]
           /\ exc' = [exc EXCEPT ![r] = n.exc]
           /\ fails' = [fails EXCEPT ![r] = n.fails]
           /\ sleeps' = [sleeps EXCEPT ![r] = n.sleeps]
           /\ logged' = [logged EXCEPT ![r] = n.logged]
    /\ UNCHANGED << telemetry, entry, text, tier, max_retries, arg, attempt,
                    calls, last, tracked, response, prompt >>

\* summarize_article after summarize_text returned: track, build the
\* response; an exception on the way goes to the except clauses.
Complete(r) ==
    /\ pc[r] = "returned"
    /\ LoopFree(r)
    /\ entry[r] = "endpoint"
    /\ LET t == track_summarization(result[r][1])
       IN  /\ tracked' = [tracked EXCEPT ![r] = t.value]
           /\ logged' = [logged EXCEPT ![r] =
                            logged[r] \cup t.log
                            \cup (IF t.exc = None THEN {} ELSE {t.exc[1].msg})]
           /\ response' = [response EXCEPT ![r] =
                              IF t.exc = None
                              THEN Some(SummaryResponse(t.value[1]))
                              ELSE Some(ErrorResponse(t.exc[1]))]
    /\ pc' = [pc EXCEPT ![r] = "responded"]
    /\ UNCHANGED << telemetry, entry, text, tier, max_retries, arg, attempt,
                    calls, fails, sleeps, last, result, exc, prompt,
                    cancelled >>

\* summarize_article after summarize_text raised.
Fail(r) ==
    /\ pc[r] = "raised"
    /\ LoopFree(r)
    /\ entry[r] = "endpoint"
    /\ logged' = [logged EXCEPT ![r] = logged[r] \cup {exc[r][1].msg}]
    /\ response' = [response EXCEPT ![r] = Some(ErrorResponse(exc[r][1]))]
    /\ pc' = [pc EXCEPT ![r] = "responded"]
    /\ UNCHANGED << telemetry, entry, text, tier, max_retries, arg, attempt,
                    calls, fails, sleeps, last, result, exc, tracked, prompt,
                    cancelled >>

Next ==
    \E r \in Reqs :
        \/ Validate(r)
        \/ Invoke(r)
        \/ RemoteResponds(r)
        \/ Wake(r)
        \/ Cancel(r)
        \/ Complete(r)
        \/ Fail(r)

Spec == Init /\ [][Next]_vars

\* Two concurrent requests.
SpecPair == InitPair /\ [][Next]_vars

\* ------------------------------------------------------------ properties
\* The number of whitespace-delimited tokens of s.
WordCount(s) == Cardinality({i \in DOMAIN s : ~s[i].ws})

\* s has no whitespace at either end.
Trimmed(s) == s = << >> \/ (~s[1].ws /\ ~s[Len(s)].ws)

\* Every whitespace run of s is one space character.
SingleSpaced(s) == \A i \in DOMAIN s : s[i].ws => (s[i].n = 1 /\ s[i].plain)

\* The words of s, in order.
WordsOf(s) == SelectSeq(s, IsWordRun)

\* The caller of r has its answer: summarize_text ended for a direct call,
\* the response is sent for the endpoint.
Ended(r) ==
    \/ pc[r] = "responded"
    \/ entry[r] = "direct" /\ pc[r] \in {"returned", "raised"}

\* Every attempt of r failed.
AllAttemptsFailed(r) == max_retries[r] >= 1 /\ fails[r] = max_retries[r]

TypeOK ==
    /\ telemetry \in {"disabled", "ok", "throws"}
    /\ \A r \in Reqs :
        /\ entry[r] \in {"endpoint", "direct", "absent"}
        /\ pc[r] \in {"absent", "received", "ready", "awaiting", "sleeping",
                      "returned", "raised", "responded", "cancelled"}
        /\ attempt[r] \in 0..MaxRetriesBound + 1
        /\ cancelled[r] \in BOOLEAN
        /\ calls[r] \in 0..MaxRetriesBound + 1
        /\ Len(result[r]) <= 1 /\ Len(exc[r]) <= 1 /\ Len(response[r]) <= 1

\* C1: when all max_retries >= 1 attempts of summarize_text fail, exactly
\* max_retries remote calls are made, no summary is returned, and the error
\* raised is not of the class of a validation error (ValueError).
C1_RetryExhausted ==
    \A r \in Reqs :
        AllAttemptsFailed(r) =>
            /\ calls[r] = max_retries[r]
            /\ pc[r] \in {"raised", "responded"}
            /\ result[r] = None
            /\ exc[r] # None
            /\ exc[r][1].cls # "ValueError"

\* The part of C1 that counts the calls.
ExhaustedCallCount ==
    \A r \in Reqs :
        AllAttemptsFailed(r) =>
            /\ calls[r] = max_retries[r]
            /\ pc[r] \in {"raised", "responded"}
            /\ result[r] = None
            /\ exc[r] # None

\* C2: a result is returned after k - 1 failed attempts and one successful
\* attempt k <= max_retries: k remote calls were submitted, k - 1 sleeps were
\* made, nothing is in flight or asleep afterwards, and the summary is the
\* trimmed text of the last remote response.
C2_SuccessAtAttemptK ==
    \A r \in Reqs :
        result[r] # None =>
            /\ calls[r] = fails[r] + 1
            /\ calls[r] <= max_retries[r]
            /\ attempt[r] = calls[r] - 1
            /\ Len(sleeps[r]) = fails[r]
            /\ pc[r] \in {"returned", "responded"}
            /\ last[r] # None
            /\ last[r][1].kind = "payload"
            /\ WordsOf(result[r][1].summary) = WordsOf(last[r][1].text)
            /\ Trimmed(result[r][1].summary)
            /\ exc[r] = None

C2_Witness ==
    \E r \in Reqs :
        /\ result[r] # None
        /\ fails[r] = 2
        /\ calls[r] = 3
        /\ sleeps[r] = << 1, 2 >>
        /\ WordCount(result[r][1].summary) = 15

\* The request body of r is outside the limits of the text.
OutOfLimits(s) ==
    \/ StrLen(s) < MinLength
    \/ StrLen(s) > MaxLength
    \/ WordCount(s) < MinWords

\* C3: an endpoint request whose text is shorter than 50 or longer than 50000
\* characters or has fewer than 10 words is answered with the validation
\* failure and no remote call; a remote call is only ever submitted for a
\* request whose text and tier passed validation.
C3_ValidationBeforeRemote ==
    \A r \in Reqs :
        entry[r] = "endpoint" =>
            /\ OutOfLimits(text[r]) =>
                /\ calls[r] = 0
                /\ pc[r] \in {"received", "responded"}
                /\ pc[r] = "responded" =>
                      /\ response[r][1].status = 422
                      /\ response[r][1].body = None
            /\ calls[r] > 0 =>
                /\ ~OutOfLimits(text[r])
                /\ tier[r] \in Tiers

C3_Witness ==
    \E r \in Reqs :
        /\ entry[r] = "endpoint"
        /\ pc[r] = "responded"
        /\ StrLen(text[r]) >= MinLength
        /\ WordCount(text[r]) = 9
        /\ response[r][1].status = 422
        /\ calls[r] = 0

\* C4: the endpoint answers a rejected body with a client error, answers 500
\* whenever all attempts failed, and answers 400 only when no remote call
\* was made.
C4_ErrorMapping ==
    \A r \in Reqs :
        (entry[r] = "endpoint" /\ pc[r] = "responded") =>
            /\ ~SummaryRequest(text[r], tier[r]).ok =>
                  response[r][1].status \in 400..499
            /\ AllAttemptsFailed(r) => response[r][1].status = 500
            /\ response[r][1].status = 400 => calls[r] = 0

\* C5: whatever the telemetry does, track_summarization hands back the
\* result of summarize_text and the endpoint answers 200 with that result.
C5_TelemetryIsolated ==
    \A r \in Reqs :
        (pc[r] = "responded" /\ result[r] # None) =>
            /\ tracked[r] = result[r]
            /\ response[r][1].status = 200
            /\ response[r][1].body = result[r]
            /\ response[r][1].error = ""

C5_Witness ==
    \E r \in Reqs :
        /\ telemetry = "throws"
        /\ pc[r] = "responded"
        /\ result[r] # None
        /\ response[r][1].status = 200
        /\ "Failed to track in LangSmith" \in logged[r]

GenericFailure == "Unable to generate summary. Please try again."

\* C6: when the request fails after a remote call was made, the response
\* carries the generic message, whatever the error text of the attempts; the
\* error text is in the log.
C6_GenericFailureMessage ==
    \A r \in Reqs :
        (pc[r] = "responded" /\ calls[r] > 0 /\ result[r] = None) =>
            /\ response[r][1].detail = GenericFailure
            /\ response[r][1].detail \notin ErrorTexts
            /\ exc[r][1].msg \in logged[r]

\* C7: in every result original_length and summary_length are the numbers
\* of words of the input text and of the generated text, and
\* compression_ratio is summary_length / original_length when
\* original_length > 0 (1/5 for 100 and 20, 1/4 for 60 and 15) and 0 when
\* original_length is 0.
C7_CompressionRatio ==
    \A r \in Reqs :
        result[r] # None =>
            LET res == result[r][1]
                cr == res.compression_ratio
            IN  /\ res.original_length = WordCount(arg[r])
                /\ res.summary_length = WordCount(last[r][1].text)
                /\ cr[2] > 0
                /\ res.original_length > 0 =>
                      cr[1] * res.original_length = res.summary_length * cr[2]
                /\ res.original_length = 0 => cr = << 0, 1 >>
                /\ (res.original_length = 100 /\ res.summary_length = 20) =>
                      cr = << 1, 5 >>
                /\ (res.original_length = 60 /\ res.summary_length = 15) =>
                      cr = << 1, 4 >>

C7_Witness ==
    \E r \in Reqs :
        /\ result[r] # None
        /\ result[r][1].original_length = 100
        /\ result[r][1].summary_length = 20
        /\ result[r][1].compression_ratio = << 1, 5 >>

\* A result for a text without words.
ZeroWordsResult ==
    \E r \in Reqs :
        /\ result[r] # None
        /\ result[r][1].original_length = 0
        /\ result[r][1].summary_length > 0

\* C8: a text of 50 to 50000 characters and at least 10 words is accepted,
\* the text handed on is the text with single spaces and trimmed ends, and
\* validating that text again accepts it and returns it unchanged.
C8_ValidateIdempotent ==
    \A r \in Reqs :
        (/\ entry[r] = "endpoint"
         /\ pc[r] # "received"
         /\ tier[r] \in Tiers
         /\ ~OutOfLimits(text[r])) =>
            /\ response[r] = None \/ response[r][1].status # 422
            /\ WordsOf(arg[r]) = WordsOf(text[r])
            /\ SingleSpaced(arg[r])
            /\ Trimmed(arg[r])
            /\ SummaryRequest(arg[r], tier[r]).ok
            /\ SummaryRequest(arg[r], tier[r]).text = arg[r]

\* C9: the i-th sleep of a request lasts 2^(i-1) seconds; there is one sleep
\* after each failed attempt that is not the last one, and none after the
\* last attempt failed or after an attempt succeeded.  (A cancelled request
\* has one sleep per failed attempt: it was cancelled in a sleep or in the
\* wait that followed it.)
C9_ExponentialBackoff ==
    \A r \in Reqs :
        /\ \A i \in DOMAIN sleeps[r] : sleeps[r][i] = 2 ^ (i - 1)
        /\ Len(sleeps[r]) = IF pc[r] = "sleeping" THEN calls[r]
                            ELSE IF pc[r] = "cancelled" THEN fails[r]
                            ELSE IF calls[r] = 0 THEN 0
                            ELSE calls[r] - 1
        /\ pc[r] = "sleeping" =>
              (fails[r] = calls[r] /\ calls[r] < max_retries[r])
        /\ Ended(r) => Len(sleeps[r]) <= max_retries[r] - 1
                       \/ sleeps[r] = << >>

C9_Witness ==
    \E r \in Reqs :
        /\ pc[r] = "raised"
        /\ AllAttemptsFailed(r)
        /\ max_retries[r] = 3
        /\ sleeps[r] = << 1, 2 >>

\* What the caller of r can see of the rest of the loop body.
Effect(n) ==
    [pc |-> n.pc, result |-> n.result, fails |-> n.fails,
     sleeps |-> n.sleeps,
     cls |-> IF n.exc = None THEN "" ELSE n.exc[1].cls,
     status |-> IF n.exc = None THEN 0 ELSE ErrorResponse(n.exc[1]).status]

\* C10: at every point where a remote call is awaited, an empty or missing
\* payload has the same effect as an error raised by the call: the same
\* sleeps, the same continuation, and in the end a failure of the same class.
C10_EmptyLikeError ==
    \A r \in Reqs :
        pc[r] = "awaiting" =>
            \A o \in Outcomes, e \in {Payload(<< >>), Missing} :
                o.kind = "raise" =>
                    Effect(AfterRemote(r, o)) = Effect(AfterRemote(r, e))

\* The body of r was accepted by SummaryRequest.
Accepted(r) ==
    /\ entry[r] = "endpoint"
    /\ pc[r] # "received"
    /\ response[r] = None \/ response[r][1].status # 422

\* C11: the text of an accepted request, which is the text handed to
\* summarize_text, is single-spaced and trimmed, is not empty, has 50 to
\* 50000 characters and has at least 10 words.
C11_AcceptedTextWithinLimits ==
    \A r \in Reqs :
        Accepted(r) =>
            /\ SingleSpaced(arg[r])
            /\ Trimmed(arg[r])
            /\ arg[r] # << >>
            /\ WordCount(arg[r]) >= MinWords
            /\ StrLen(arg[r]) >= MinLength
            /\ StrLen(arg[r]) <= MaxLength

\* The string x occurs in the string s, at word boundaries.
Occurs(x, s) ==
    \E i \in 1..(Len(s) - Len(x) + 1) : SubSeq(s, i, i + Len(x) - 1) = x

\* The tiers whose instruction occurs in one of the parts ps of prompt p.
\* No instruction has a line break, and the literal parts next to
\* {instruction} and {text} start or end with a character that no
\* instruction has there, so an instruction occurs in the prompt exactly
\* when it occurs in one of its parts.
TiersIn(p, ps) == {t \in Tiers : \E i \in ps : Occurs(length_instructions[t], p[i])}

\* The tier whose instruction the prompt of r is to carry.
EffectiveTier(r) == IF tier[r] \in Tiers THEN tier[r] ELSE "medium"

\* C12 as stated: the prompt contains the text, and of the three
\* instructions it contains exactly the one of the tier (of medium for an
\* unknown tier).
C12_PromptHasOneInstruction ==
    \A r \in Reqs :
        prompt[r] # None =>
            LET p == prompt[r][1]
            IN  /\ \E i \in DOMAIN p : p[i] = arg[r]
                /\ TiersIn(p, DOMAIN p) = {EffectiveTier(r)}

\* C12 as amended: the prompt contains the text verbatim between the fixed
\* parts, and outside the text it contains exactly one of the three
\* instructions, the one of the tier (of medium for an unknown tier); so
\* does the whole prompt when the text contains no instruction.
C12_TemplateHasOneInstruction ==
    \A r \in Reqs :
        prompt[r] # None =>
            LET p == prompt[r][1]
            IN  /\ Len(p) = 5
                /\ p[4] = arg[r]
                /\ p[1] = PromptHead /\ p[3] = PromptMiddle
                /\ p[5] = PromptTail
                /\ TiersIn(p, DOMAIN p \ {4}) = {EffectiveTier(r)}
                /\ TiersIn(p, {4}) = {} =>
                      TiersIn(p, DOMAIN p) = {EffectiveTier(r)}

C12_Witness ==
    \E r \in Reqs :
        /\ prompt[r] # None
        /\ tier[r] = "huge"
        /\ Occurs(Instruction_long, arg[r])
        /\ TiersIn(prompt[r][1], DOMAIN prompt[r][1]) = {"medium", "long"}

\* C14: from the step that cancels a request on, no remote call is
\* submitted and no sleep is started for it, the cancellation is not counted
\* as a failed attempt, the request is out of summarize_text with
\* CancelledError, and it has no result and no response.
C14_CancellationAbandons ==
    [][\A r \in Reqs :
          cancelled'[r] =>
              /\ calls'[r] = calls[r]
              /\ sleeps'[r] = sleeps[r]
              /\ fails'[r] = fails[r]
              /\ pc'[r] = "cancelled"
              /\ exc'[r] = Some(Exc("CancelledError", ""))
              /\ result'[r] = None
              /\ tracked'[r] = None
              /\ response'[r] = None]_vars

C14_Witness ==
    \E r \in Reqs :
        /\ cancelled[r]
        /\ pc[r] = "cancelled"
        /\ calls[r] = 2
        /\ fails[r] = 1
        /\ sleeps[r] = << 1 >>

\* A request cancelled in its backoff sleep.
CancelledAsleep ==
    \E r \in Reqs : cancelled[r] /\ calls[r] = 2 /\ fails[r] = 2

\* summarize_text was entered by r and has ended.
LeftSummarizeText(r) ==
    \/ pc[r] \in {"returned", "raised", "cancelled"}
    \/ pc[r] = "responded" /\ Accepted(r)

FinalRaise == Exc("RuntimeError", "Failed to generate summary after all retries")

\* C15: a request has never more than max(max_retries, 0) remote calls; with
\* max_retries <= 0 summarize_text makes no call and no sleep and raises the
\* error of the end of the loop; summarize_text always ends with either a
\* result or an exception, never with neither.
C15_NeverEndsEmpty ==
    \A r \in Reqs :
        /\ calls[r] <= (IF max_retries[r] > 0 THEN max_retries[r] ELSE 0)
        /\ (max_retries[r] <= 0 /\ LeftSummarizeText(r)) =>
              /\ calls[r] = 0
              /\ sleeps[r] = << >>
              /\ prompt[r] = None
              /\ result[r] = None
              /\ exc[r] = Some(FinalRaise)
        /\ LeftSummarizeText(r) => (result[r] = None) # (exc[r] = None)

C15_Witness ==
    \E r \in Reqs :
        /\ max_retries[r] < 0
        /\ pc[r] = "raised"
        /\ calls[r] = 0
        /\ exc[r] = Some(FinalRaise)

\* C16: every result has a summary that is not empty, of at least one word;
\* an attempt whose text is empty once trimmed gives no result.
C16_SummaryNotEmpty ==
    \A r \in Reqs :
        /\ result[r] # None =>
              /\ result[r][1].summary # << >>
              /\ result[r][1].summary_length >= 1
        /\ (last[r] # None /\ last[r][1].kind = "payload"
                /\ Strip(last[r][1].text) = << >>) => result[r] = None

\* The next step of q can be taken.
CanProceed(q) ==
    /\ pc[q] = "received" => ENABLED Validate(q)
    /\ pc[q] = "ready" => ENABLED Invoke(q)
    /\ pc[q] = "awaiting" => ENABLED RemoteResponds(q)
    /\ pc[q] = "sleeping" => ENABLED Wake(q)
    /\ (pc[q] = "returned" /\ entry[q] = "endpoint") => ENABLED Complete(q)
    /\ (pc[q] = "raised" /\ entry[q] = "endpoint") => ENABLED Fail(q)

\* The calls and sleeps of q are those of its own failed attempts: one call
\* per failed attempt and one more for the attempt in flight, succeeded or
\* cancelled; the sleeps 1, 2, 4, ... one per failed attempt but the last.
RunsAsAlone(q) ==
    LET open == \/ pc[q] = "awaiting"
                \/ result[q] # None
                \/ pc[q] = "cancelled" /\ Len(sleeps[q]) = fails[q]
                                       /\ fails[q] < calls[q]
    IN  /\ calls[q] = fails[q] + (IF open THEN 1 ELSE 0)
        /\ calls[q] <= max_retries[q]
        /\ calls[q] > 0 => attempt[q] = calls[q] - 1
        /\ Len(sleeps[q]) = IF fails[q] < max_retries[q] THEN fails[q]
                            ELSE max_retries[q] - 1
        /\ \A i \in DOMAIN sleeps[q] : sleeps[q][i] = 2 ^ (i - 1)

====
